---- MODULE Spec2Model ----
(***************************************************************************)
(* ShortenerTransform of rollbar/lib/transforms/shortener.py.              *)
(*                                                                         *)
(* Python values are modelled over a heap.  A leaf (None, str, int, float, *)
(* opaque object) is an immediate value; a container (dict, non-dict       *)
(* Mapping, list, tuple, set, frozenset, array, deque) is a heap object    *)
(* and a value refers to it by its index, so that in-place mutation,       *)
(* aliasing and self-containing inputs behave as they do in Python.        *)
(* Strings are TLA+ strings with their real contents: str(), repr() and    *)
(* reprlib.Repr are computed character by character.                       *)
(***************************************************************************)
EXTENDS Integers, Sequences, FiniteSets, TLC

VARIABLES
    pc,         \* "new" | "ready" | "running" | "returned" | "raised" | "deep"
    _repr,      \* self._repr: attribute name -> value (reprlib.Repr instance)
    safe_repr,  \* self.safe_repr
    keys,       \* self.keys
    heap,       \* the caller's objects: sequence of containers
    stack,      \* active traverse_obj frames, innermost last: [d, i]
    arg,        \* default()'s argument o
    key,        \* default()'s argument key
    ret,        \* the value default() returns
    built,      \* history: the constructor's arguments and what it set
    call,       \* history: which invocation this is and what it was given
    first,      \* history: how the first invocation ended
    touched,    \* history: the objects traverse_obj was entered on
    copies,     \* history: the dicts _shorten_mapping built, with their source
    steps       \* history: loop iterations and returns of traverse_obj so far

vars == <<pc, _repr, safe_repr, keys, heap, stack, arg, key, ret,
          built, call, first, touched, copies, steps>>

----------------------------------------------------------------------------
(* Bounds of the model *)

\* longest container (elements or keys) among the inputs
MaxLen == 3
\* deepest traverse_obj recursion followed before the run is cut off
MaxStack == 5

----------------------------------------------------------------------------
(* Python values *)

PyNone == [t |-> "None", s |-> "", n |-> 0]
PyStr(s) == [t |-> "str", s |-> s, n |-> 0]
PyInt(n) == [t |-> "int", s |-> "", n |-> n]
\* a float is carried by its repr(), an opaque object by its str()/repr()
PyFloat(s) == [t |-> "float", s |-> s, n |-> 0]
PyObj(s) == [t |-> "object", s |-> s, n |-> 0]
Ref(id) == [t |-> "ref", s |-> "", n |-> id]

\* a heap object: keys k (dict and Mapping only) and elements / values e
Container(t, k, e) == [t |-> t, k |-> k, e |-> e]

IsRef(v) == v.t = "ref"

\* type(v).__name__, through the heap for containers
TypeOf(h, v) == IF IsRef(v) THEN h[v.n].t ELSE v.t

\* len(v) of a string or a container
PyLen(h, v) == IF IsRef(v) THEN Len(h[v.n].e) ELSE Len(v.s)

----------------------------------------------------------------------------
(* Python string primitives *)

Max(a, b) == IF a >= b THEN a ELSE b
Min(a, b) == IF a <= b THEN a ELSE b

\* s[:i] for i >= 0
Prefix(s, i) == SubSeq(s, 1, Min(i, Len(s)))
\* s[len(s)-j:] for 0 <= j; Python's slice clamps a negative start to 0
Suffix(s, j) == SubSeq(s, Max(1, Len(s) - j + 1), Len(s))

RECURSIVE Contains(_, _)
Contains(s, c) ==
    IF s = "" THEN FALSE
    ELSE IF SubSeq(s, 1, 1) = c THEN TRUE
    ELSE Contains(SubSeq(s, 2, Len(s)), c)

Digit(d) == SubSeq("0123456789", d + 1, d + 1)

RECURSIVE NatStr(_)
NatStr(n) == IF n < 10 THEN Digit(n) ELSE NatStr(n \div 10) \o Digit(n % 10)

\* str(n) = repr(n) of an int
IntStr(n) == IF n < 0 THEN "-" \o NatStr(0 - n) ELSE NatStr(n)

RECURSIVE Escape(_, _)
\* the body of builtins.repr(str): backslash and the quote character escaped
Escape(s, q) ==
    IF s = "" THEN ""
    ELSE LET c == SubSeq(s, 1, 1)
             rest == Escape(SubSeq(s, 2, Len(s)), q)
         IN IF c = "\\" \/ c = q THEN "\\" \o c \o rest ELSE c \o rest

\* builtins.repr(s) of a str: single quotes, unless the string holds a
\* single quote and no double quote
StrRepr(s) ==
    IF Contains(s, "'") /\ ~Contains(s, "\"")
    THEN "\"" \o Escape(s, "\"") \o "\""
    ELSE "'" \o Escape(s, "'") \o "'"

RECURSIVE Join(_)
\* ', '.join(pieces)
Join(pieces) ==
    IF pieces = <<>> THEN ""
    ELSE IF Len(pieces) = 1 THEN pieces[1]
    ELSE pieces[1] \o ", " \o Join(Tail(pieces))

----------------------------------------------------------------------------
(* reprlib.Repr (Python standard library), as _repr.repr uses it *)

\* reprlib.Repr.__init__: the attributes of a fresh Repr instance
ReprDefaults ==
    [maxlevel |-> 6, maxtuple |-> 6, maxlist |-> 6, maxarray |-> 5,
     maxdict |-> 4, maxset |-> 6, maxfrozenset |-> 6, maxdeque |-> 6,
     maxstring |-> 30, maxlong |-> 40, maxother |-> 30]

\* s[:i] + fillvalue + s[len(s)-j:] with i, j derived from the limit
Elide(s, limit) ==
    LET i == Max(0, (limit - 3) \div 2)
        j == Max(0, limit - 3 - i)
    IN Prefix(s, i) \o "..." \o Suffix(s, j)

\* Repr.repr_str
repr_str(r, x) ==
    LET s == StrRepr(Prefix(x, r.maxstring))
    IN IF Len(s) > r.maxstring
       THEN LET i == Max(0, (r.maxstring - 3) \div 2)
                j == Max(0, r.maxstring - 3 - i)
                s2 == StrRepr(Prefix(x, i) \o Suffix(x, j))
            IN Prefix(s2, i) \o "..." \o Suffix(s2, j)
       ELSE s

\* Repr.repr_int
repr_int(r, x) ==
    LET s == IntStr(x)
    IN IF Len(s) > r.maxlong THEN Elide(s, r.maxlong) ELSE s

\* Repr.repr_instance, given s = builtins.repr(x)
repr_instance(r, s) ==
    IF Len(s) > r.maxother THEN Elide(s, r.maxother) ELSE s

\* builtins.repr of a value that Repr has no method for: None, a float, an
\* opaque object, an instance of a user-defined Mapping class
BuiltinRepr(h, v) ==
    CASE v.t = "None" -> "None"
      [] v.t \in {"float", "object"} -> v.s
      [] OTHER -> "<M object>"

RECURSIVE repr1(_, _, _, _)
RECURSIVE ReprPieces(_, _, _, _, _)

\* [repr1(elem, newlevel) for elem in islice(x, maxiter)]
ReprPieces(h, r, elems, maxiter, newlevel) ==
    [i \in 1..Min(Len(elems), maxiter) |-> repr1(h, r, elems[i], newlevel)]

\* Repr._repr_iterable
repr_iterable(h, r, elems, level, left, right, maxiter, trail) ==
    LET n == Len(elems)
    IN IF level <= 0 /\ n > 0
       THEN left \o "..." \o right
       ELSE LET pieces == ReprPieces(h, r, elems, maxiter, level - 1)
                all == IF n > maxiter THEN Append(pieces, "...") ELSE pieces
                rt == IF n = 1 /\ trail # "" THEN trail \o right ELSE right
            IN left \o Join(all) \o rt

\* Repr.repr_dict; the keys are strings in sorted order
repr_dict(h, r, o, level) ==
    LET n == Len(o.e)
    IN IF n = 0 THEN "{}"
       ELSE IF level <= 0 THEN "{...}"
       ELSE LET pieces == [i \in 1..Min(n, r.maxdict) |->
                              repr1(h, r, PyStr(o.k[i]), level - 1) \o ": "
                              \o repr1(h, r, o.e[i], level - 1)]
                all == IF n > r.maxdict THEN Append(pieces, "...") ELSE pieces
            IN "{" \o Join(all) \o "}"

\* Repr.repr1: dispatch on type(x).__name__
repr1(h, r, v, level) ==
    LET t == TypeOf(h, v)
        e == IF IsRef(v) THEN h[v.n].e ELSE <<>>
    IN CASE t = "str" -> repr_str(r, v.s)
         [] t = "int" -> repr_int(r, v.n)
         [] t = "tuple" -> repr_iterable(h, r, e, level, "(", ")", r.maxtuple, ",")
         [] t = "list" -> repr_iterable(h, r, e, level, "[", "]", r.maxlist, "")
         [] t = "array" ->
                IF e = <<>> THEN "array('i')"
                ELSE repr_iterable(h, r, e, level, "array('i', [", "])", r.maxarray, "")
         [] t = "set" ->
                IF e = <<>> THEN "set()"
                ELSE repr_iterable(h, r, e, level, "{", "}", r.maxset, "")
         [] t = "frozenset" ->
                IF e = <<>> THEN "frozenset()"
                ELSE repr_iterable(h, r, e, level, "frozenset({", "})", r.maxfrozenset, "")
         [] t = "deque" -> repr_iterable(h, r, e, level, "deque([", "])", r.maxdeque, "")
         [] t = "dict" -> repr_dict(h, r, h[v.n], level)
         [] OTHER -> repr_instance(r, BuiltinRepr(h, v))

\* Repr.repr
ReprOf(h, r, v) == repr1(h, r, v, r.maxlevel)

----------------------------------------------------------------------------
(* rollbar.lib type tables and the module's own table *)

\* collections.abc.Mapping: the built-in dict and every other Mapping class
Mapping == {"dict", "mapping"}

\* rollbar.lib.string_types, integer_types, number_types, sequence_types
string_types == {"str"}
integer_types == {"int"}
number_types == {"float", "int"}
sequence_types == Mapping \cup {"list", "tuple", "set", "frozenset", "array", "deque"}

isinstance(h, v, types) == TypeOf(h, v) \in types

\* _type_name_mapping, in insertion order; 'other' maps to None (no type)
_type_name_mapping ==
    << [name |-> "string", types |-> string_types],
       [name |-> "long", types |-> integer_types],
       [name |-> "mapping", types |-> Mapping],
       [name |-> "list", types |-> {"list"}],
       [name |-> "tuple", types |-> {"tuple"}],
       [name |-> "set", types |-> {"set"}],
       [name |-> "frozenset", types |-> {"frozenset"}],
       [name |-> "array", types |-> {"array"}],
       [name |-> "deque", types |-> {"deque"}],
       [name |-> "other", types |-> {}] >>

\* the attribute name _get_max_size reads for a table entry
SizeAttr(name) == "max" \o (IF name = "mapping" THEN "dict" ELSE name)

\* _get_max_size with no category matching: every value is sized as 'other'
_get_max_size_other(h, r, obj) == r.maxother

\* ShortenerTransform._get_max_size
_get_max_size(h, r, obj) ==
    LET hits == {i \in 1..Len(_type_name_mapping) :
                    isinstance(h, obj, _type_name_mapping[i].types)}
    IN IF hits = {} THEN r.maxother
       ELSE LET i == CHOOSE m \in hits : \A o \in hits : m <= o
            IN r[SizeAttr(_type_name_mapping[i].name)]

----------------------------------------------------------------------------
(* The shortening strategies *)

\* str(obj)
PyStrOf(h, v) ==
    CASE v.t = "int" -> IntStr(v.n)
      [] v.t = "str" -> v.s
      [] OTHER -> BuiltinRepr(h, v)

\* _shorten_sequence without the length test: always the summary
_shorten_sequence_always(h, r, obj, max_keys) == PyStr(ReprOf(h, r, obj))

\* ShortenerTransform._shorten_sequence
_shorten_sequence(h, r, obj, max_keys) ==
    IF PyLen(h, obj) <= max_keys THEN obj ELSE PyStr(ReprOf(h, r, obj))

\* _shorten_mapping with the slice off by one: the keys 2..max_keys+1
_shorten_mapping_shifted(h, obj, max_keys) ==
    IF PyLen(h, obj) <= max_keys
    THEN [v |-> obj, h |-> h]
    ELSE [v |-> Ref(Len(h) + 1),
          h |-> Append(h, Container("dict", SubSeq(h[obj.n].k, 2, max_keys + 1),
                                            SubSeq(h[obj.n].e, 2, max_keys + 1)))]

\* ShortenerTransform._shorten_mapping: the value returned and the heap, which
\* holds one more dict when the mapping was over its limit
_shorten_mapping(h, obj, max_keys) ==
    IF PyLen(h, obj) <= max_keys
    THEN [v |-> obj, h |-> h]
    ELSE [v |-> Ref(Len(h) + 1),
          h |-> Append(h, Container("dict", SubSeq(h[obj.n].k, 1, max_keys),
                                            SubSeq(h[obj.n].e, 1, max_keys)))]

\* ShortenerTransform._shorten_basic
_shorten_basic(h, r, obj, max_len) ==
    IF Len(PyStrOf(h, obj)) <= max_len THEN obj ELSE PyStr(ReprOf(h, r, obj))

\* ShortenerTransform._shorten_other
_shorten_other(h, r, safe, obj) ==
    IF obj = PyNone THEN PyNone
    ELSE IF safe THEN PyStr(ReprOf(h, r, PyStr(PyStrOf(h, obj))))
    ELSE PyStr(ReprOf(h, r, obj))

\* ShortenerTransform._shorten up to its call of traverse_obj: the value it
\* will return, the heap, and whether traverse_obj(v) is called
_shorten(h, r, safe, val) ==
    LET max_size == _get_max_size(h, r, val)
    IN IF isinstance(h, val, {"dict"})
       THEN LET m == _shorten_mapping(h, val, max_size)
            IN [v |-> m.v, h |-> m.h, trav |-> TRUE]
       ELSE IF isinstance(h, val, string_types)
       THEN [v |-> _shorten_sequence(h, r, val, max_size), h |-> h, trav |-> FALSE]
       ELSE IF isinstance(h, val, sequence_types)
       THEN [v |-> _shorten_sequence(h, r, val, max_size), h |-> h, trav |-> TRUE]
       ELSE IF isinstance(h, val, number_types)
       THEN [v |-> _shorten_basic(h, r, val, r.maxlong), h |-> h, trav |-> FALSE]
       ELSE [v |-> _shorten_other(h, r, safe, val), h |-> h, trav |-> FALSE]

\* rollbar.lib.key_in: the key is one of the configured names
key_in(k, canonicals) == k.t = "str" /\ k.s \in canonicals

\* ShortenerTransform._should_shorten; `not key` holds of None and of ''
_should_shorten(k, ks) ==
    IF k = PyNone \/ k = PyStr("") THEN FALSE ELSE key_in(k, ks)

----------------------------------------------------------------------------
(* traverse_obj, one entry at a time *)

\* traverse_obj(v) iterates: v is a dict or an instance of sequence_types
Traversable(h, v) == IsRef(v) /\ isinstance(h, v, {"dict"} \cup sequence_types)

\* d[i] with an int i: a set is not subscriptable, a Mapping has no key i
Subscriptable(t) == t \in {"dict", "list", "tuple", "array", "deque"}

\* d[i] = x: a tuple takes no item assignment, an array only a number
Assignable(t, x) == t \in {"dict", "list", "deque"} \/ (t = "array" /\ x.t = "int")

\* what traverse_obj computes for the entry value v: the value to store,
\* the heap, and whether traverse_obj is called on the stored value
Entry(h, r, safe, v) ==
    IF isinstance(h, v, {"dict"})
    THEN LET m == _shorten_mapping(h, v, _get_max_size(h, r, v))
         IN [v |-> m.v, h |-> m.h, trav |-> TRUE]
    ELSE IF isinstance(h, v, sequence_types)
    THEN [v |-> _shorten_sequence(h, r, v, _get_max_size(h, r, v)),
          h |-> h, trav |-> TRUE]
    ELSE _shorten(h, r, safe, v)

Top == stack[Len(stack)]

\* the loop staying on the same key / index
Advance_stuck(stk) == stk

\* the loop moves on to the next key / index
Advance(stk) == [stk EXCEPT ![Len(stk)].i = @ + 1]

\* the dict _shorten_mapping appended to the heap, if any
NewCopies(h, h2, v) ==
    IF Len(h2) > Len(h) THEN {[new |-> Len(h2), old |-> v.n]} ELSE {}

\* the loop of traverse_obj is over: return d to the caller
TraverseReturn ==
    /\ pc = "running"
    /\ Top.i > Len(heap[Top.d].e)
    /\ stack' = SubSeq(stack, 1, Len(stack) - 1)
    /\ pc' = IF Len(stack) = 1 THEN "returned" ELSE "running"
    /\ steps' = steps + 1
    /\ UNCHANGED <<_repr, safe_repr, keys, heap, arg, key, ret,
                   built, call, first, touched, copies>>

\* the entry cannot be read or cannot be stored: the exception propagates
TraverseRaise ==
    /\ pc = "running"
    /\ Top.i <= Len(heap[Top.d].e)
    /\ LET t == heap[Top.d].t
           out == Entry(heap, _repr, safe_repr, heap[Top.d].e[Top.i])
       IN ~Subscriptable(t) \/ ~Assignable(t, out.v)
    /\ pc' = "raised"
    /\ steps' = steps + 1
    /\ UNCHANGED <<_repr, safe_repr, keys, heap, stack, arg, key, ret,
                   built, call, first, touched, copies>>

\* one iteration of either loop of traverse_obj
TraverseEntry ==
    /\ pc = "running"
    /\ Top.i <= Len(heap[Top.d].e)
    /\ LET t == heap[Top.d].t
           v == heap[Top.d].e[Top.i]
           out == Entry(heap, _repr, safe_repr, v)
           rest == Advance(stack)
       IN /\ Subscriptable(t)
          /\ Assignable(t, out.v)
          /\ heap' = [out.h EXCEPT ![Top.d].e[Top.i] = out.v]
          /\ copies' = copies \cup NewCopies(heap, out.h, v)
          /\ IF out.trav /\ Traversable(out.h, out.v)
             THEN IF Len(stack) < MaxStack
                  THEN /\ stack' = Append(rest, [d |-> out.v.n, i |-> 1])
                       /\ touched' = touched \cup {out.v.n}
                       /\ pc' = "running"
                  ELSE /\ pc' = "deep"
                       /\ UNCHANGED <<stack, touched>>
             ELSE /\ stack' = rest
                  /\ UNCHANGED <<touched, pc>>
    /\ steps' = steps + 1
    /\ UNCHANGED <<_repr, safe_repr, keys, arg, key, ret, built, call, first>>

----------------------------------------------------------------------------
(* default *)

\* self._shorten(o) up to the first iteration of traverse_obj
ShortenSteps(h, o) ==
    LET out == _shorten(h, _repr, safe_repr, o)
    IN /\ heap' = out.h
       /\ ret' = out.v
       /\ copies' = NewCopies(h, out.h, o)
       /\ steps' = 0
       /\ IF out.trav /\ Traversable(out.h, out.v)
          THEN /\ stack' = <<[d |-> out.v.n, i |-> 1]>>
               /\ touched' = {out.v.n}
               /\ pc' = "running"
          ELSE /\ stack' = <<>>
               /\ touched' = {}
               /\ pc' = "returned"

\* _shorten keeping the size it looked up in self._repr.maxother
ShortenCall_caching(h, o) ==
    /\ ShortenSteps(h, o)
    /\ _repr' = [_repr EXCEPT !.maxother = _get_max_size(h, _repr, o)]
    /\ UNCHANGED <<safe_repr, keys>>

\* return self._shorten(o): no attribute of self is assigned
ShortenCall(h, o) ==
    /\ ShortenSteps(h, o)
    /\ UNCHANGED <<_repr, safe_repr, keys>>

\* return super().default(o, key=key): Transform.default returns o
SuperDefault(h, o) ==
    /\ heap' = h
    /\ ret' = o
    /\ copies' = {}
    /\ stack' = <<>>
    /\ touched' = {}
    /\ steps' = 0
    /\ pc' = "returned"
    /\ UNCHANGED <<_repr, safe_repr, keys>>

\* default without the eligibility test
default_always(h, o, k) == ShortenCall(h, o)

\* ShortenerTransform.default(o, key=k), o living in heap h
default(h, o, k) ==
    IF _should_shorten(k, keys) THEN ShortenCall(h, o) ELSE SuperDefault(h, o)

----------------------------------------------------------------------------
(* The values the transform is invoked on *)

ContainerTypes ==
    {"dict", "mapping", "list", "tuple", "set", "frozenset", "array", "deque"}

LeafKinds ==
    {"int", "long", "str", "text", "float", "double", "object", "None"}

\* the i-th leaf of a kind; leaves of one kind are distinct, as the members
\* of a set must be
Fill(kind, i) ==
    CASE kind = "int" -> PyInt(6 + i)
      [] kind = "long" -> PyInt(123455 + i)
      [] kind = "str" -> PyStr("s" \o Digit(i))
      [] kind = "text" -> PyStr("aaaaaaa" \o Digit(i))
      [] kind = "float" -> PyFloat(Digit(i) \o ".5")
      [] kind = "double" -> PyFloat("0.12345" \o Digit(i))
      [] kind = "object" -> PyObj("<object " \o Digit(i) \o ">")
      [] OTHER -> PyNone

Fills(kind, n) == [i \in 1..n |-> Fill(kind, i)]

\* the keys of a mapping with n entries: 'a', 'b', ...
KeysOf(n) == [i \in 1..n |-> SubSeq("abcdefgh", i, i)]

Make(t, elems) ==
    Container(t, IF t \in Mapping THEN KeysOf(Len(elems)) ELSE <<>>, elems)

\* elems with the value v at position p
Put(elems, p, v) == [elems EXCEPT ![p] = v]

\* what Python lets a container of type t hold
Holds(t, kind, n) ==
    /\ t = "array" => kind \in {"int", "long"}
    /\ (t \in {"set", "frozenset"} /\ kind = "None") => n <= 1

\* a container of type tp can hold a container of type tc: an array holds
\* numbers only, the members of a set are hashable
Nests(tp, tc) ==
    /\ tp # "array"
    /\ tp \in {"set", "frozenset"} => tc \in {"tuple", "frozenset"}

ChildKind(tc) == IF tc = "array" THEN "long" ELSE "text"

Walkable == {"dict", "list", "deque"}

LeafInputs == {[h |-> <<>>, o |-> Fill(kind, 1)] : kind \in LeafKinds}

FlatInputs ==
    {[h |-> <<Make(x[1], Fills(x[2], x[3]))>>, o |-> Ref(1)] :
        x \in {y \in ContainerTypes \X LeafKinds \X (0..MaxLen) :
                  Holds(y[1], y[2], y[3])}}

\* a container holding small ints and, first or last, one child container
NestedInputs ==
    {[h |-> <<Make(x[1], Put(Fills("int", x[3]), x[4], Ref(2))),
              Make(x[2], Fills(ChildKind(x[2]), x[5]))>>,
      o |-> Ref(1)] :
        x \in {y \in ContainerTypes \X ContainerTypes \X (1..MaxLen)
                     \X (1..MaxLen) \X (0..MaxLen) :
                  Nests(y[1], y[2]) /\ y[4] \in {1, y[3]}}}

\* three levels of nesting
ChainInputs ==
    {[h |-> <<Make(x[1], <<Ref(2)>>), Make(x[2], <<PyInt(7), Ref(3)>>),
              Make(x[3], Fills("text", x[4]))>>,
      o |-> Ref(1)] :
        x \in Walkable \X Walkable \X Walkable \X (0..MaxLen)}

\* the same child under the first and the last entry
AliasInputs ==
    {[h |-> <<Make(x[1], <<Ref(2), PyInt(7), Ref(2)>>),
              Make(x[2], Fills(ChildKind(x[2]), x[3]))>>,
      o |-> Ref(1)] :
        x \in Walkable \X ContainerTypes \X (0..MaxLen)}

\* a container that contains itself, directly or through a child
CyclicInputs ==
    {[h |-> <<Make(x[1], Put(Fills("int", x[2]), 1, Ref(1)))>>, o |-> Ref(1)] :
        x \in Walkable \X (1..MaxLen)}
    \cup
    {[h |-> <<Make(x[1], <<Ref(2)>>), Make(x[2], <<PyInt(7), Ref(1)>>)>>,
      o |-> Ref(1)] :
        x \in Walkable \X Walkable}

Inputs ==
    LeafInputs \cup FlatInputs \cup NestedInputs \cup ChainInputs
    \cup AliasInputs \cup CyclicInputs

\* the key argument: None, '', a configured name, another name
KeyArgs == {PyNone, PyStr(""), PyStr("body"), PyStr("other")}

\* the keys argument of the constructor
KeyChoices == {{}, {"body"}}

\* the **sizes of the constructor: none, two sets of small limits, the
\* second with a name reprlib.Repr does not know
SizeChoices ==
    << [x \in {} |-> 0],
       [maxdict |-> 2, maxlist |-> 1, maxtuple |-> 2, maxset |-> 1,
        maxfrozenset |-> 2, maxarray |-> 1, maxdeque |-> 2,
        maxstring |-> 6, maxlong |-> 5, maxother |-> 8],
       [maxdict |-> 1, maxlist |-> 2, maxtuple |-> 1, maxset |-> 2,
        maxfrozenset |-> 1, maxarray |-> 2, maxdeque |-> 1,
        maxstring |-> 2, maxlong |-> 5, maxother |-> 4, maxkeys |-> 1] >>

----------------------------------------------------------------------------
(* Values compared by structure *)

RECURSIVE Tree(_, _, _)
\* the value v of heap h as a nested structure; fuel bounds the depth
Tree(h, v, fuel) ==
    IF ~IsRef(v) THEN [t |-> v.t, s |-> v.s, n |-> v.n, k |-> <<>>, e |-> <<>>]
    ELSE IF fuel = 0 THEN [t |-> "cycle", s |-> "", n |-> 0, k |-> <<>>, e |-> <<>>]
    ELSE [t |-> h[v.n].t, s |-> "", n |-> 0, k |-> h[v.n].k,
          e |-> [i \in 1..Len(h[v.n].e) |-> Tree(h, h[v.n].e[i], fuel - 1)]]

TreeOf(h, v) == Tree(h, v, Len(h) + 1)

NoTree == [t |-> "", s |-> "", n |-> 0, k |-> <<>>, e |-> <<>>]

----------------------------------------------------------------------------
(* The transform's life: constructed once, then invoked *)

Init ==
    /\ pc = "new"
    /\ _repr = ReprDefaults
    /\ safe_repr = TRUE
    /\ keys = {}
    /\ heap = <<>>
    /\ stack = <<>>
    /\ arg = PyNone
    /\ key = PyNone
    /\ ret = PyNone
    /\ built = [sizes |-> SizeChoices[1], repr |-> ReprDefaults,
                safe |-> TRUE, keys |-> {}]
    /\ call = [phase |-> 0, heap0 |-> <<>>]
    /\ first = [pc |-> "", val |-> NoTree]
    /\ touched = {}
    /\ copies = {}
    /\ steps = 0

\* for name, size in sizes.items(): setattr(self._repr, name, size)
SetAttrs(r, sizes) ==
    [name \in DOMAIN r \cup DOMAIN sizes |->
        IF name \in DOMAIN sizes THEN sizes[name] ELSE r[name]]

\* ShortenerTransform.__init__(safe_repr, keys, **sizes)
Construct ==
    /\ pc = "new"
    /\ \E safe \in BOOLEAN, ks \in KeyChoices, c \in 1..Len(SizeChoices) :
          /\ safe_repr' = safe
          /\ keys' = ks
          /\ _repr' = SetAttrs(ReprDefaults, SizeChoices[c])
          /\ built' = [sizes |-> SizeChoices[c],
                       repr |-> SetAttrs(ReprDefaults, SizeChoices[c]),
                       safe |-> safe, keys |-> ks]
    /\ pc' = "ready"
    /\ UNCHANGED <<heap, stack, arg, key, ret, call, first, touched, copies, steps>>

Finished == pc \in {"returned", "raised", "deep"}

\* the pipeline invokes default(o, key) on a value of its own
Call ==
    /\ pc = "ready"
    /\ \E in \in Inputs, k \in KeyArgs :
          /\ arg' = in.o
          /\ key' = k
          /\ call' = [phase |-> 1, heap0 |-> in.h]
          /\ default(in.h, in.o, k)
    /\ UNCHANGED <<built, first>>

\* the shortened value is given to default once more, under the same key
Reapply ==
    /\ pc = "returned"
    /\ call.phase = 1
    /\ _should_shorten(key, keys)
    /\ first' = [pc |-> pc, val |-> TreeOf(heap, ret)]
    /\ call' = [phase |-> 2, heap0 |-> heap]
    /\ arg' = ret
    /\ default(heap, ret, key)
    /\ UNCHANGED <<key, built>>

\* default is invoked on a fresh copy of the value it first shortened
Replay ==
    /\ pc \in {"returned", "raised"}
    /\ call.phase = 1
    /\ _should_shorten(key, keys)
    /\ first' = [pc |-> pc, val |-> IF pc = "returned" THEN TreeOf(heap, ret) ELSE NoTree]
    /\ call' = [call EXCEPT !.phase = 3]
    /\ default(call.heap0, arg, key)
    /\ UNCHANGED <<arg, key, built>>

\* the caller drops the value; the transform is ready for the next one
Release ==
    /\ Finished
    /\ pc' = "ready"
    /\ heap' = <<>>
    /\ stack' = <<>>
    /\ arg' = PyNone
    /\ key' = PyNone
    /\ ret' = PyNone
    /\ call' = [phase |-> 0, heap0 |-> <<>>]
    /\ first' = [pc |-> "", val |-> NoTree]
    /\ touched' = {}
    /\ copies' = {}
    /\ steps' = 0
    /\ UNCHANGED <<_repr, safe_repr, keys, built>>

Next ==
    \/ Construct
    \/ Call
    \/ TraverseEntry
    \/ TraverseRaise
    \/ TraverseReturn
    \/ Reapply
    \/ Replay
    \/ Release

Spec == Init /\ [][Next]_vars

----------------------------------------------------------------------------
(* Vocabulary of the properties *)

\* the invocation in progress (or just finished) was eligible for shortening
Eligible == call.phase >= 1 /\ key \notin {PyNone, PyStr("")} /\ key.s \in keys

\* the limit configured for a container's own category
CategoryLimit(t) ==
    CASE t \in Mapping -> _repr.maxdict
      [] t = "list" -> _repr.maxlist
      [] t = "tuple" -> _repr.maxtuple
      [] t = "set" -> _repr.maxset
      [] t = "frozenset" -> _repr.maxfrozenset
      [] t = "array" -> _repr.maxarray
      [] OTHER -> _repr.maxdeque

RECURSIVE Closure(_, _)
Closure(h, ids) ==
    LET more == ids \cup UNION {{h[id].e[i].n :
                                     i \in {j \in 1..Len(h[id].e) : IsRef(h[id].e[j])}} :
                                 id \in ids}
    IN IF more = ids THEN ids ELSE Closure(h, more)

\* the containers reachable from the value v
Reach(h, v) == IF IsRef(v) THEN Closure(h, {v.n}) ELSE {}

\* the leaves of the value v
Leaves(h, v) ==
    IF ~IsRef(v) THEN {v}
    ELSE {x \in UNION {{h[id].e[i] : i \in 1..Len(h[id].e)} : id \in Reach(h, v)} :
             ~IsRef(x)}

\* the value contains itself
Cyclic(h, v) ==
    LET RECURSIVE Cut(_)
        Cut(tr) == tr.t = "cycle" \/ \E i \in 1..Len(tr.e) : Cut(tr.e[i])
    IN Cut(TreeOf(h, v))

RECURSIVE Depth(_, _, _)
\* the container nesting depth of an acyclic value: 0 for a leaf
Depth(h, v, fuel) ==
    IF ~IsRef(v) \/ fuel = 0 THEN 0
    ELSE LET ds == {Depth(h, h[v.n].e[i], fuel - 1) : i \in 1..Len(h[v.n].e)}
         IN 1 + (IF ds = {} THEN 0 ELSE CHOOSE m \in ds : \A d \in ds : d <= m)

----------------------------------------------------------------------------
(* C1 *)

\* C1: once an eligible invocation has returned, every container at every
\* nesting level of the returned value holds at most as many elements / keys
\* as the limit of its own category allows.
C1_ContainersWithinOwnLimit ==
    (pc = "returned" /\ Eligible) =>
        \A id \in Reach(heap, ret) : Len(heap[id].e) <= CategoryLimit(heap[id].t)

\* C1 witness: a returned list holds a dict that _shorten_mapping cut down to
\* maxdict keys, and maxdict is not the list's own limit
C1_Witness ==
    /\ pc = "returned" /\ Eligible /\ call.phase = 1
    /\ IsRef(ret) /\ heap[ret.n].t = "list"
    /\ _repr.maxdict # _repr.maxlist
    /\ \E c \in copies :
          /\ Ref(c.new) = heap[ret.n].e[1]
          /\ Len(heap[c.old].e) > _repr.maxdict
          /\ Len(heap[c.old].e) <= _repr.maxlist
          /\ Len(heap[c.new].e) = _repr.maxdict

----------------------------------------------------------------------------
(* C2 *)

\* C2: when no key is supplied (None or '') or the key is not in the
\* eligibility set, default returns its argument itself at once: nothing is
\* traversed, no object is changed and none is created.
C2_IneligiblePassThrough ==
    (call.phase >= 1 /\ ~Eligible) =>
        /\ pc = "returned"
        /\ ret = arg
        /\ heap = call.heap0
        /\ touched = {}
        /\ copies = {}
        /\ stack = <<>>

\* C2 witness: the value passed through without a key is a nested container
\* that is over its limit and would have been summarised
C2_Witness ==
    /\ pc = "returned" /\ call.phase = 1
    /\ key = PyNone /\ keys = {"body"}
    /\ IsRef(arg) /\ Len(heap) = 2
    /\ Len(heap[arg.n].e) > CategoryLimit(heap[arg.n].t)
    /\ ret = arg

----------------------------------------------------------------------------
(* C3 *)

\* C3: once constructed, default never raises for an eligible value.
C3_NeverRaises == pc # "raised"

----------------------------------------------------------------------------
(* C4 *)

\* the limit on the string form of a leaf, by the leaf's category
LeafWithinLimit(x) ==
    CASE x.t = "str" -> Len(x.s) <= _repr.maxstring
      [] x.t \in number_types -> Len(PyStrOf(heap, x)) <= _repr.maxlong
      [] OTHER -> TRUE

\* C4: in the value an eligible invocation returns, the string form of every
\* text or numeric leaf (summary strings included) is no longer than the
\* limit of the leaf's category, and a number whose string form is longer
\* than maxlong comes back as a summary of at most maxlong characters.
C4_LeavesWithinLimit ==
    (pc = "returned" /\ Eligible) =>
        /\ \A x \in Leaves(heap, ret) : LeafWithinLimit(x)
        /\ (arg.t \in number_types /\ Len(PyStrOf(heap, arg)) > _repr.maxlong)
              => (ret.t = "str" /\ Len(ret.s) <= _repr.maxlong)

----------------------------------------------------------------------------
(* C5 *)

RECURSIVE Recapped(_, _)
\* b is a with every string longer than maxstring replaced by a string of
\* max(maxstring, 3) characters, and nothing else changed
Recapped(a, b) ==
    IF a.t = "str" /\ Len(a.s) > _repr.maxstring
    THEN b.t = "str" /\ Len(b.s) = Max(_repr.maxstring, 3) /\ b.e = <<>>
    ELSE /\ b.t = a.t /\ b.s = a.s /\ b.n = a.n /\ b.k = a.k
         /\ Len(b.e) = Len(a.e)
         /\ \A i \in 1..Len(a.e) : Recapped(a.e[i], b.e[i])

----------------------------------------------------------------------------
(* C6 *)

\* the override names that are no attribute of a fresh reprlib.Repr
UnknownNames(sizes) == DOMAIN sizes \ DOMAIN ReprDefaults

\* C6: a transform whose constructor was given an override with an unknown
\* name does not come into being: construction fails.
C6_UnknownOverrideFails ==
    (pc # "new" /\ UnknownNames(built.sizes) # {}) => pc = "failed"

----------------------------------------------------------------------------
(* C7 *)

\* the containers reachable in h through the entries 1..n of the object o
Under(h, o, from, to) ==
    UNION {Reach(h, o.e[i]) : i \in from..to}

----------------------------------------------------------------------------
(* C8 *)

\* C8: no invocation changes the limits, the eligibility set or safe_repr
\* fixed at construction, and invoking default again on the same value under
\* the same key ends the same way with the same result.
C8_ConfigurationFixed ==
    /\ pc # "new" =>
          /\ _repr = built.repr
          /\ safe_repr = built.safe
          /\ keys = built.keys
    /\ (call.phase = 3 /\ Finished) =>
          /\ pc = first.pc
          /\ pc = "returned" => TreeOf(heap, ret) = first.val

\* C8 witness: the second invocation on the same value has returned, and it
\* did shorten the value
C8_Witness ==
    /\ call.phase = 3 /\ pc = "returned" /\ IsRef(ret)
    /\ TreeOf(heap, ret) = first.val
    /\ TreeOf(heap, ret) # TreeOf(call.heap0, arg)

----------------------------------------------------------------------------
(* C9 *)

\* C9: a mapping-like value given to default, a dict or any other Mapping,
\* comes back as a mapping holding its first maxdict keys (never as a
\* summary string), and traverse_obj went through it key by key.
C9_MappingLikeHandledAsMapping ==
    (Finished /\ Eligible /\ call.phase = 1 /\ IsRef(arg)
        /\ call.heap0[arg.n].t \in Mapping
        /\ \A i \in 1..Len(call.heap0[arg.n].e) : ~IsRef(call.heap0[arg.n].e[i])) =>
        /\ pc = "returned"
        /\ IsRef(ret)
        /\ heap[ret.n].t \in Mapping
        /\ heap[ret.n].k = SubSeq(call.heap0[arg.n].k, 1,
                                  Min(_repr.maxdict, Len(call.heap0[arg.n].k)))
        /\ ret.n \in touched

----------------------------------------------------------------------------
(* C10 *)

InputDepth == Depth(call.heap0, arg, Len(call.heap0) + 1)

RECURSIVE Work(_, _, _)
\* what traverse_obj does on an acyclic value if nothing is shortened: one
\* step per entry, one return per container; none on a leaf
Work(h, v, fuel) ==
    IF ~IsRef(v) \/ fuel = 0 THEN 0
    ELSE LET RECURSIVE Sum(_)
             Sum(i) == IF i = 0 THEN 0
                       ELSE 1 + Work(h, h[v.n].e[i], fuel - 1) + Sum(i - 1)
         IN 1 + Sum(Len(h[v.n].e))

InputWork == Work(call.heap0, arg, Len(call.heap0) + 1)

\* a dict, list or deque within its limit whose first entry is itself
SelfContaining ==
    /\ IsRef(arg)
    /\ LET o0 == call.heap0[arg.n]
       IN /\ o0.t \in Walkable
          /\ Len(o0.e) >= 1
          /\ Len(o0.e) <= CategoryLimit(o0.t)
          /\ o0.e[1] = arg

\* C10: on a finite value that does not contain itself the traversal ends:
\* while it runs its innermost loop stands at an entry or at its end, so it
\* has a next step, and it takes no more steps than the value has entries
\* and containers; traverse_obj is never nested deeper than the value's
\* containers are.  On a within-limit dict,
\* list or deque whose first entry is itself the invocation neither returns
\* nor raises: traverse_obj nests until the recursion is cut off.
C10_TraversalBounded ==
    /\ (Eligible /\ ~Cyclic(call.heap0, arg)) =>
          /\ pc # "deep"
          /\ Len(stack) <= InputDepth
          /\ steps <= InputWork
          /\ pc = "running" =>
                /\ stack # <<>>
                /\ Top.d \in 1..Len(heap)
                /\ Top.i \in 1..Len(heap[Top.d].e) + 1
    /\ (Eligible /\ SelfContaining) =>
          /\ pc \in {"running", "deep"}
          /\ pc = "deep" => Len(stack) = MaxStack

\* C10 witness: traverse_obj is nested three deep in a value whose
\* containers are nested three deep, and has used up all its steps but the
\* returns
C10_Witness ==
    /\ pc = "running" /\ Eligible /\ ~Cyclic(call.heap0, arg)
    /\ InputDepth = 3
    /\ Len(stack) = 3
    /\ steps = InputWork - 3

\* the recursion is cut off in a value that contains itself
C10_WitnessDeep ==
    /\ pc = "deep" /\ Eligible /\ SelfContaining

====
